---- MODULE Spec2Model ----
(***************************************************************************)
(* AtomiFit: the set-shape dispatch (setDisplayVariant) and the            *)
(* aggregations the workout screen, the list view and the calendar view    *)
(* run over the rows of the sets_data table.                               *)
(*                                                                         *)
(* A nullable column or field is an option: Null is <<>> and a present     *)
(* value v is <<v>>.  Dates are day ordinals: the 'YYYY-MM-DD' strings of  *)
(* the program compare as their days do.                                   *)
(***************************************************************************)
EXTENDS Integers, Sequences, FiniteSets, TLC

VARIABLES
    categories,     \* the categories table: id -> [name, colour]
    exercises,      \* the exercises table: id -> [name, category_id]
    setsData,       \* the sets_data table, in rowid order
    setObj,         \* the Set handed to a lone setDisplayVariant call
    displayed,      \* what that call produced
    data,           \* workout screen: the live query's rows
    workoutGroups,  \* workout screen: the groups data.reduce built
    workoutView,    \* workout screen: what the render produced
    listData,       \* list view: the `data` state (ListWorkout[])
    listView,       \* list view: what each ListViewItem's render produced
    calendarData,   \* calendar view: the `data` state
    calendarView,   \* calendar view: the indicators of the days
    editMode,       \* workout screen: {edit, selectedExercises}
    effectPending,  \* workout screen: the effect on selectedExercises is due
    exerciseId,     \* track screen: the exerciseId route parameter
    sets,           \* track screen: the `sets` state
    menuVisible,    \* track screen: {state, currentSelectedId}
    event,          \* the handler that ran last, with its argument
    distanceInput,  \* a DistanceInput: its props, its state, the saves made
    seedCalls,      \* the calls of seedDatabase: position and what each read
    pc              \* how far each screen and the seeding have got

vars == <<categories, exercises, setsData, setObj, displayed, data,
          workoutGroups, workoutView, listData, listView, calendarData,
          calendarView, editMode, effectPending, exerciseId, sets,
          menuVisible, event, distanceInput, seedCalls, pc>>

\* What a DistanceInput neither reads nor writes.
outsideInput == <<categories, exercises, setsData, setObj, displayed, data,
                  workoutGroups, workoutView, listData, listView,
                  calendarData, calendarView, editMode, effectPending,
                  exerciseId, sets, menuVisible, seedCalls, pc>>

\* The state of the handlers of the workout screen and of the track screen.
handlerVars == <<editMode, effectPending, exerciseId, sets, menuVisible, event>>

----------------------------------------------------------------------------
(* Bounds of the model *)

MaxRows == 3        \* rows in sets_data
MaxSaves == 2       \* saves made through one DistanceInput
MaxExercise == 2    \* exercise ids that rows refer to
MaxVal == 1         \* largest measurement value

(* Program values *)

Null == <<>>
Some(v) == <<v>>

Today == 2
Dates == (Today - 1)..Today

\* The days a row of sets_data can be dated: from two days ago to tomorrow.
FirstDate == Today - 2
LastDate == Today + 1
StoredDates == FirstDate..LastDate

ExerciseIds == 1..MaxExercise
CategoryIds == {1, 2}
Colours == {"#FF0000", "#0000FF"}

\* The unique indexes nameIdx and exerciseNameIdx: one name per id, and the
\* names sort as their ids do.
CategoryName(id) == <<"Arms", "Back", "Chest", "Legs">>[id]
ExerciseName(id) == <<"Bench Press", "Deadlift", "Row", "Squat">>[id]

Measurements == {Null} \cup {Some(v) : v \in 0..MaxVal}

----------------------------------------------------------------------------
(* Sequence helpers *)

RECURSIVE Join(_, _)
\* Array.prototype.join
Join(seq, sep) ==
    IF seq = <<>> THEN ""
    ELSE IF Len(seq) = 1 THEN seq[1]
    ELSE seq[1] \o sep \o Join(Tail(seq), sep)

RECURSIVE FoldLeft(_, _, _)
\* Array.prototype.reduce with an initial value
FoldLeft(f(_, _), acc, seq) ==
    IF seq = <<>> THEN acc
    ELSE FoldLeft(f, f(acc, Head(seq)), Tail(seq))

RECURSIVE Flatten(_)
\* The rows of the parts, one part after the other
Flatten(seqs) ==
    IF seqs = <<>> THEN <<>> ELSE Head(seqs) \o Flatten(Tail(seqs))

\* Array.prototype.map
Map(f(_), seq) == [i \in 1..Len(seq) |-> f(seq[i])]

\* Array.prototype.findIndex, 0 when nothing matches
FindIndex(test(_), seq) ==
    IF \E i \in 1..Len(seq) : test(seq[i])
    THEN CHOOSE i \in 1..Len(seq) :
            test(seq[i]) /\ \A j \in 1..(i - 1) : ~test(seq[j])
    ELSE 0

----------------------------------------------------------------------------
(* setDisplayVariant *)

\* The keys of every displayVariants dictionary of the program.
displayVariants ==
    {"weight_reps", "distance_time", "weight_distance", "weight_time",
     "reps_distance", "reps_time", "weight", "reps", "distance", "time"}

keys == <<"weight", "reps", "distance", "time">>

\* A lookup that falls back to the first entry when the key is missing.
CallEntryOrFirst(dictionary, key, set) ==
    IF key \in dictionary
    THEN [threw |-> FALSE, entry |-> key, set |-> set]
    ELSE [threw |-> FALSE, entry |-> "weight_reps", set |-> set]

\* Calling an entry: the element is the entry applied to the set.  Calling
\* the undefined that a missing key yields throws a TypeError.
CallEntry(dictionary, key, set) ==
    IF key \in dictionary
    THEN [threw |-> FALSE, entry |-> key, set |-> set]
    ELSE [threw |-> TRUE, entry |-> "TypeError", set |-> set]

\* The key built from the field names in alphabetical order.
displayKeysSorted(set) ==
    Join(SelectSeq(<<"distance", "reps", "time", "weight">>,
                   LAMBDA key : set[key] # Null), "_")

displayKeysOf(set) ==
    Join(SelectSeq(keys, LAMBDA key : set[key] # Null), "_")

setDisplayVariant(set, displayVariantsDictionary) ==
    CallEntry(displayVariantsDictionary, displayKeysOf(set), set)

\* The copy of the function that the history screen defines inline.
historySetDisplayVariant(set) ==
    CallEntry(displayVariants, displayKeysOf(set), set)

----------------------------------------------------------------------------
(* The store *)

\* A sets_data row.
SetsDataRow(id, date, exercise_id, shape) ==
    [id |-> id, date |-> date, exercise_id |-> exercise_id,
     weight |-> shape[1], reps |-> shape[2], distance |-> shape[3],
     time |-> shape[4], notes |-> Null]

\* exercises LEFT JOIN: the row of the exercise, or nothing.
JoinedExercise(exercise_id) ==
    IF exercise_id \in DOMAIN exercises THEN Some(exercises[exercise_id])
    ELSE Null

\* categories LEFT JOIN through the exercise.
JoinedCategory(exercise_id) ==
    LET e == JoinedExercise(exercise_id)
    IN  IF e # Null /\ e[1].category_id \in DOMAIN categories
        THEN Some(categories[e[1].category_id])
        ELSE Null

\* A column of a left-joined row: NULL when the join missed.
Column(joined, name) == IF joined = Null THEN Null ELSE Some(joined[1][name])

----------------------------------------------------------------------------
(* Workout screen (app/index.tsx) *)

\* useLiveQuery over the sets_data rows `rows`:
\* sets_data LEFT JOIN exercises WHERE date = date
WorkoutQuery(rows, date) ==
    Map(LAMBDA row :
            [exerciseId |-> Column(JoinedExercise(row.exercise_id), "id"),
             exerciseName |-> Column(JoinedExercise(row.exercise_id), "name"),
             setsData |-> row],
        SelectSeq(rows, LAMBDA row : row.date = date))

\* A callback whose lookup never finds the group.
GroupExerciseNeverFound(acc, item) ==
    Append(acc, [exerciseId |-> item.setsData.exercise_id,
                 exerciseName |-> item.exerciseName,
                 sets |-> <<item.setsData>>])

\* A callback that puts new groups and new sets in front.
GroupExerciseUnshift(acc, item) ==
    LET existingExercise ==
            FindIndex(LAMBDA accItem :
                          accItem.exerciseId = item.setsData.exercise_id, acc)
    IN  IF existingExercise # 0
        THEN [acc EXCEPT ![existingExercise].sets = <<item.setsData>> \o @]
        ELSE <<[exerciseId |-> item.setsData.exercise_id,
                exerciseName |-> item.exerciseName,
                sets |-> <<item.setsData>>]>> \o acc

\* A callback that finds the group by the joined exercise name.
GroupExerciseByName(acc, item) ==
    LET existingExercise ==
            FindIndex(LAMBDA accItem :
                          accItem.exerciseName = item.exerciseName, acc)
    IN  IF existingExercise # 0
        THEN [acc EXCEPT ![existingExercise].sets = Append(@, item.setsData)]
        ELSE Append(acc, [exerciseId |-> item.setsData.exercise_id,
                          exerciseName |-> item.exerciseName,
                          sets |-> <<item.setsData>>])

\* The callback of data.reduce
GroupExercise(acc, item) ==
    LET existingExercise ==
            FindIndex(LAMBDA accItem :
                          accItem.exerciseId = item.setsData.exercise_id, acc)
    IN  IF existingExercise # 0
        THEN [acc EXCEPT ![existingExercise].sets = Append(@, item.setsData)]
        ELSE Append(acc, [exerciseId |-> item.setsData.exercise_id,
                          exerciseName |-> item.exerciseName,
                          sets |-> <<item.setsData>>])

TransformExerciseData(rows) == FoldLeft(GroupExercise, <<>>, rows)

RECURSIVE Reverse(_)
\* Array.prototype.reverse
Reverse(seq) ==
    IF seq = <<>> THEN <<>> ELSE Append(Reverse(Tail(seq)), Head(seq))

\* A reduce over the array reversed in place.
ReduceDataReversed(rows) ==
    [data |-> Reverse(rows), groups |-> TransformExerciseData(Reverse(rows))]

\* data.reduce(...) as the render calls it: the groups it returns and the
\* array `data` as the call leaves it; neither reduce nor the callback
\* writes to the array or to its rows.
ReduceData(rows) == [data |-> rows, groups |-> TransformExerciseData(rows)]

\* A render result: the elements, or the exception that aborted the render.
Rendered(items) ==
    IF \E i \in 1..Len(items) : items[i].threw
    THEN [threw |-> TRUE, items |-> <<>>]
    ELSE [threw |-> FALSE, items |-> items]

\* WorkoutListItem: the name, and the sets unless edit mode hides them.
WorkoutListItem(exercise, edit) ==
    LET shown == IF edit THEN <<>>
                 ELSE Map(LAMBDA set : setDisplayVariant(set, displayVariants),
                          exercise.sets)
    IN  [threw |-> Rendered(shown).threw,
         key |-> exercise.exerciseId,
         exerciseName |-> exercise.exerciseName,
         sets |-> shown]

\* The render of the screen: the placeholder, or one item per group.
WorkoutScreen(rows, edit) ==
    IF Len(rows) > 0
    THEN Rendered(Map(LAMBDA exercise : WorkoutListItem(exercise, edit),
                      TransformExerciseData(rows)))
    ELSE [threw |-> FALSE, items |-> <<>>]

\* The ids of a selection.
Selected(state) ==
    {state.selectedExercises[i] : i \in 1..Len(state.selectedExercises)}

\* An effect that leaves the state as it is.
exitEditModeNever(state) == state

\* The effect on editMode.selectedExercises: with nothing selected, edit
\* mode is left.
exitEditMode(state) ==
    IF Len(state.selectedExercises) = 0 THEN [state EXCEPT !.edit = FALSE]
    ELSE state

\* A handler that appends the id whether or not it is selected.
handleEditModeAppend(prevState, id) ==
    IF ~prevState.edit
    THEN [edit |-> TRUE, selectedExercises |-> <<id>>]
    ELSE [prevState EXCEPT !.selectedExercises = Append(@, id)]

\* The updater handleEditMode hands to setEditMode.
handleEditMode(prevState, id) ==
    IF ~prevState.edit
    THEN [edit |-> TRUE, selectedExercises |-> <<id>>]
    ELSE LET isSelected == id \in Selected(prevState)
         IN  [prevState EXCEPT
                 !.selectedExercises =
                     IF isSelected THEN SelectSeq(@, LAMBDA x : x # id)
                     ELSE Append(@, id)]

\* onBackPress: in edit mode the press leaves it and clears the selection.
onBackPress(state) ==
    IF state.edit THEN [edit |-> FALSE, selectedExercises |-> <<>>]
    ELSE state

\* A delete whose condition is the exercise ids alone.
DeleteExercisesOfAnyDate(rows, date, ids) ==
    SelectSeq(rows, LAMBDA row : row.exercise_id \notin ids)

\* db.delete(schema.setsData).where(and(eq(date), inArray(exercise_id, ids)))
DeleteExercises(rows, date, ids) ==
    SelectSeq(rows, LAMBDA row : ~(row.date = date /\ row.exercise_id \in ids))

----------------------------------------------------------------------------
(* Track screen (app/exercise/track/[exerciseId].tsx) *)

\* The id SQLite gives an inserted row: one more than the largest rowid.
NextId(rows) ==
    IF rows = <<>> THEN 1
    ELSE 1 + CHOOSE m \in {rows[i].id : i \in 1..Len(rows)} :
                \A i \in 1..Len(rows) : rows[i].id <= m

\* The query of the mount effect: the exercise's sets of today.
TrackQuery(rows, id) ==
    SelectSeq(rows, LAMBDA row : row.exercise_id = id /\ row.date = Today)

\* The earliest date the exercise has a set on.
OldestDate(rows, id) ==
    LET dates == {rows[i].date : i \in {j \in 1..Len(rows) :
                                          rows[j].exercise_id = id}}
    IN  IF dates = {} THEN Null
        ELSE Some(CHOOSE d \in dates : \A e \in dates : d <= e)

\* mostRecentDateQuery: max(date) over the exercise's sets, null without any.
MostRecentDate(rows, id) ==
    LET dates == {rows[i].date : i \in {j \in 1..Len(rows) :
                                          rows[j].exercise_id = id}}
    IN  IF dates = {} THEN Null
        ELSE Some(CHOOSE d \in dates : \A e \in dates : e <= d)

\* firstSetQuery: the exercise's sets of the date, ORDER BY id LIMIT 1.
FirstSetQuery(rows, id, date) ==
    LET found == SelectSeq(rows, LAMBDA row : row.exercise_id = id
                                              /\ row.date = date)
    IN  IF found = <<>> THEN Null ELSE Some(found[1])

\* A new set copied from the first set of the list.
NewSetFromFirst(rows, list, id) ==
    IF Len(list) > 0 THEN Some([list[1] EXCEPT !.notes = Some("")])
    ELSE Null

\* The values addNewSet inserts (its id is the store's to give): a copy of
\* the last set of the list; with an empty list a blank weight-and-reps set
\* when the exercise has no set, and else a copy of the first set of its
\* most recent date, dated today.  The notes are "" in each case.
NewSet(rows, list, id) ==
    IF Len(list) > 0
    THEN Some([list[Len(list)] EXCEPT !.notes = Some("")])
    ELSE IF MostRecentDate(rows, id) = Null
    THEN Some([id |-> 0, exercise_id |-> id, date |-> Today,
               weight |-> Some(0), reps |-> Some(0), distance |-> Null,
               time |-> Null, notes |-> Some("")])
    ELSE LET firstSetQuery ==
                 FirstSetQuery(rows, id, MostRecentDate(rows, id)[1])
         IN  IF firstSetQuery = Null THEN Null
             ELSE Some([firstSetQuery[1] EXCEPT !.date = Today,
                                              !.notes = Some("")])

\* A delete whose condition takes every row up to the id.
DeleteSetsUpTo(rows, k) == SelectSeq(rows, LAMBDA row : row.id > k)

\* db.delete(schema.setsData).where(eq(schema.setsData.id, k))
DeleteSetRow(rows, k) == SelectSeq(rows, LAMBDA row : row.id # k)

----------------------------------------------------------------------------
(* DistanceInput (components/inputs/exerciseRecords/DistanceInput.tsx) *)

\* Texts the field can hand to distanceOnChangeFunc; each passes the
\* validation /^\d*\.?\d{0,2}$/ of the set list item.
TypedTexts == {"", "0", "05", ".5", "7"}

\* The units of the picker.
DistanceUnits == {"Km", "M", "Mi", "Ft"}

\* distanceOnChangeFunc: a text that begins with the point gets a zero in
\* front, and zeros in front of a digit are taken away.
ProcessedVal(val) ==
    CASE val = ".5" -> "0.5"
      [] val = "05" -> "5"
      [] OTHER -> val

\* distanceOnBlurFunc: the empty text becomes "0".
distanceOnBlurFunc(state) ==
    IF state.distance = "" THEN [state EXCEPT !.distance = "0"] ELSE state

\* Number(text), written as the set list item hands it back in `value`
\* (distance.toString()): the empty text is the number 0.
NumberToString(text) == IF text = "" THEN "0" ELSE text

\* A cancel that closes the modal and leaves the edited state.
handleCancelClosesOnly(input) == [input EXCEPT !.modalState = FALSE]

\* handleCancel: the state is set to the props and the modal is closed.
handleCancel(input) ==
    [input EXCEPT !.state = [distance |-> input.value,
                             distanceUnit |-> input.suffix],
                  !.modalState = FALSE]

\* handleSave with handleDistanceSave of the set list item: saveDistance is
\* called with the number and the unit, the item stores the distance and
\* hands it back as `value`, and the modal is closed; the effect on
\* [value, suffix] is due when the value is another one.
handleSave(input) ==
    LET distance == NumberToString(input.state.distance)
    IN  [input EXCEPT
            !.saved = Append(@, [distance |-> distance,
                                 unit |-> input.state.distanceUnit]),
            !.value = distance,
            !.modalState = FALSE,
            !.effectDue = (distance # input.value)]

----------------------------------------------------------------------------
(* List view (app/(calendar)/listView.tsx, ListViewItem) *)

\* JSON_OBJECT and JSON.parse: the six columns the query names; the date and
\* the exercise_id of the row are not among them.
ParsedSet(row) ==
    [id |-> row.id, weight |-> row.weight, reps |-> row.reps,
     distance |-> row.distance, time |-> row.time, notes |-> row.notes]

\* The place of a row's group among the groups of its date: GROUP BY
\* exercises.name sorts NULL first and then by name, and the names sort as
\* the ids do.
NameRank(row) ==
    IF JoinedExercise(row.exercise_id) = Null THEN 0 ELSE row.exercise_id

\* The dates, latest first (ORDER BY date DESC).
DatesDesc(rows) ==
    SelectSeq([i \in 1..Cardinality(StoredDates) |-> LastDate + 1 - i],
              LAMBDA d : \E i \in 1..Len(rows) : rows[i].date = d)

\* The query's rows of one date: one per (exercise name, category name,
\* category colour), each with the sets of its rows in rowid order.
ListQueryOfDate(rows, d) ==
    LET ofDate == SelectSeq(rows, LAMBDA row : row.date = d)
        ranks == SelectSeq([i \in 1..(MaxExercise + 1) |-> i - 1],
                           LAMBDA r : \E i \in 1..Len(ofDate) :
                                         NameRank(ofDate[i]) = r)
    IN  Map(LAMBDA r :
                LET members == SelectSeq(ofDate, LAMBDA row : NameRank(row) = r)
                    id == members[1].exercise_id
                IN  [date |-> d,
                     exercise_name |-> Column(JoinedExercise(id), "name"),
                     category_name |-> Column(JoinedCategory(id), "name"),
                     category_colour |-> Column(JoinedCategory(id), "colour"),
                     sets |-> Map(ParsedSet, members)],
            ranks)

\* The query over the sets_data rows `rows`.
ListQuery(rows) ==
    Flatten(Map(LAMBDA d : ListQueryOfDate(rows, d), DatesDesc(rows)))

\* A sort that leaves the groups in the order of the query's rows.
KeepQueryOrder(seq) == seq

RECURSIVE SortByFirstSetId(_)
\* Array.prototype.sort (stable) with the comparator a.sets[0].id - b.sets[0].id
SortByFirstSetId(seq) ==
    IF seq = <<>> THEN <<>>
    ELSE LET last == seq[Len(seq)]
             rest == SortByFirstSetId(SubSeq(seq, 1, Len(seq) - 1))
             before == SelectSeq(rest, LAMBDA x : x.sets[1].id <= last.sets[1].id)
             after == SelectSeq(rest, LAMBDA x : x.sets[1].id > last.sets[1].id)
         IN  before \o <<last>> \o after

\* The callback of the list view's data.reduce; the accumulator keeps its
\* dates in insertion order, as Object.keys reads them back.
GroupByDate(acc, item) ==
    LET entry == [exercise_name |-> item.exercise_name,
                  category_name |-> item.category_name,
                  category_colour |-> item.category_colour,
                  sets |-> item.sets]
        existing == FindIndex(LAMBDA workout : workout.date = item.date, acc)
    IN  IF existing # 0
        THEN [acc EXCEPT ![existing].data = SortByFirstSetId(Append(@, entry))]
        ELSE Append(acc, [date |-> item.date,
                          data |-> SortByFirstSetId(<<entry>>)])

\* A fold whose accumulator starts with an entry for today.
FormattedDataWithToday(rows) ==
    FoldLeft(GroupByDate, <<[date |-> Today, data |-> <<>>]>>, rows)

\* groupedData and formattedData: the fold starts from the empty object.
FormattedData(rows) == FoldLeft(GroupByDate, <<>>, rows)

\* String.prototype.toUpperCase on the exercise names
ToUpperCase(name) ==
    CASE name = "Bench Press" -> "BENCH PRESS"
      [] name = "Deadlift" -> "DEADLIFT"
      [] name = "Row" -> "ROW"
      [] name = "Squat" -> "SQUAT"

\* A callback that adds every category it meets.
AddCategoryAlways(acc, cat) ==
    Append(acc, [category_colour |-> cat.category_colour,
                 category_name |-> cat.category_name])

\* The callback of ListViewItem's reduce: a category is added unless one of
\* the same name is there.
AddCategory(acc, cat) ==
    IF ~\E i \in 1..Len(acc) : acc[i].category_name = cat.category_name
    THEN Append(acc, [category_colour |-> cat.category_colour,
                      category_name |-> cat.category_name])
    ELSE acc

CategorySummary(exerciseGroups) == FoldLeft(AddCategory, <<>>, exerciseGroups)

\* One exercise of a ListViewItem: toUpperCase of a null name throws.
ListViewExercise(exercise) ==
    LET shown == Map(LAMBDA set : setDisplayVariant(set, displayVariants),
                     exercise.sets)
    IN  IF exercise.exercise_name = Null
        THEN [threw |-> TRUE, exercise_name |-> Null, sets |-> <<>>]
        ELSE [threw |-> Rendered(shown).threw,
              exercise_name |-> Some(ToUpperCase(exercise.exercise_name[1])),
              sets |-> shown]

\* ListViewItem: the exercises are rendered first, then the categories.
ListViewItem(workout) ==
    LET shown == Rendered(Map(ListViewExercise, workout.data))
    IN  [threw |-> shown.threw,
         key |-> workout.date,
         exercises |-> shown.items,
         categories |-> IF shown.threw THEN <<>>
                        ELSE CategorySummary(workout.data)]

\* renderPlaceholder: whether the list's header is the TODAY placeholder.
renderPlaceholder(workouts) ==
    Len(workouts) = 0 \/ workouts[1].date # Today

\* The FlatList's header and items; one item that throws aborts the render
\* of the list.
ListViewScreen(workouts) ==
    LET items == Map(ListViewItem, workouts)
    IN  [threw |-> \E i \in 1..Len(items) : items[i].threw, items |-> items,
         placeholder |-> renderPlaceholder(workouts)]

----------------------------------------------------------------------------
(* Calendar view (app/(calendar)/index.tsx) *)

\* The place of a row's group among the groups of its date in the inner
\* query: GROUP BY categories.name sorts NULL first and then by name.
CategoryRank(row) ==
    IF JoinedCategory(row.exercise_id) = Null THEN 0
    ELSE JoinedCategory(row.exercise_id)[1].id

\* The dates, earliest first (GROUP BY date).
DatesAsc(rows) ==
    SelectSeq([i \in 1..Cardinality(StoredDates) |-> FirstDate - 1 + i],
              LAMBDA d : \E i \in 1..Len(rows) : rows[i].date = d)

\* GROUP_CONCAT skips NULL and is NULL when nothing is left; JSON.parse turns
\* the bracketed text into the array and NULL into null.
ParsedConcat(values) ==
    LET present == SelectSeq(values, LAMBDA v : v # Null)
    IN  IF present = <<>> THEN Null
        ELSE Some(Map(LAMBDA v : v[1], present))

\* The inner query's rows of one date: the quoted colour of each group of
\* (date, categories.name), NULL when the join missed.
FormattedCategories(rows, d) ==
    LET ofDate == SelectSeq(rows, LAMBDA row : row.date = d)
        ranks == SelectSeq([i \in 1..(Cardinality(CategoryIds) + 1) |-> i - 1],
                           LAMBDA r : \E i \in 1..Len(ofDate) :
                                         CategoryRank(ofDate[i]) = r)
    IN  Map(LAMBDA r :
                LET members == SelectSeq(ofDate,
                                         LAMBDA row : CategoryRank(row) = r)
                IN  Column(JoinedCategory(members[1].exercise_id), "colour"),
            ranks)

\* The state the effect sets: one item per date.
CalendarQuery(rows) ==
    Map(LAMBDA d : [date |-> d,
                    categories |-> ParsedConcat(FormattedCategories(rows, d))],
        DatesAsc(rows))

\* The indicators of one day: item.categories.map throws on null.
DayIndicators(item) ==
    IF item.categories = Null
    THEN [threw |-> TRUE, date |-> item.date, indicators |-> <<>>]
    ELSE [threw |-> FALSE, date |-> item.date,
          indicators |-> Map(LAMBDA category :
                                 [key |-> category, backgroundColor |-> category],
                             item.categories[1])]

----------------------------------------------------------------------------
(* The contents the tables can have *)

\* Measurements of the stored sets: a weight-and-reps set (a 0 is a value)
\* and a set with no measurement at all.
StoredShapes ==
    {<<Some(MaxVal), Some(0), Null, Null>>, <<Null, Null, Null, Null>>}

\* sets_data: ids are the rowids 1..n; exercise_id may have no exercise.
SetsDataTables(shapes) ==
    UNION {{[i \in 1..n |-> SetsDataRow(i, f[i][1], f[i][2], f[i][3])] :
                f \in [1..n -> Dates \X ExerciseIds \X shapes]} :
           n \in 0..MaxRows}

\* exercises: any subset of the ids, each in one of the categories `cats`.
ExercisesTables(cats) ==
    UNION {{[id \in S |-> [id |-> id, name |-> ExerciseName(id),
                           category_id |-> c[id]]] : c \in [S -> cats]} :
           S \in SUBSET ExerciseIds}

\* categories: any subset of `ids`, names unique, colours unconstrained.
CategoriesTables(ids) ==
    UNION {{[id \in S |-> [id |-> id, name |-> CategoryName(id),
                           colour |-> c[id]]] : c \in [S -> Colours]} :
           S \in SUBSET ids}

\* The tables as seedDatabase fills them: one category, and every exercise
\* in it.
SeededCategories ==
    [id \in {1} |-> [id |-> id, name |-> CategoryName(id),
                     colour |-> "#FF0000"]]

SeededExercises ==
    [id \in ExerciseIds |-> [id |-> id, name |-> ExerciseName(id),
                             category_id |-> 1]]

\* No screen is mounted and the seeding has not begun.
Idle ==
    [display |-> "idle", workout |-> "idle", list |-> "idle",
     calendar |-> "idle", track |-> "idle", seed |-> "idle"]

\* A DistanceInput as useState sets it, of a set of distance 0, before its
\* effect has run.
DistanceInputIdle ==
    [value |-> "0", suffix |-> "Km", modalState |-> FALSE,
     state |-> [distance |-> "", distanceUnit |-> ""],
     effectDue |-> TRUE, saved |-> <<>>]

\* The provider's effect runs at mount and when the migrations end.
SeedCalls == {1, 2}

\* seedDatabase has not been called.
NoSeedCalls ==
    [call \in SeedCalls |-> [pc |-> "idle", categories |-> <<>>,
                             exercises |-> <<>>]]

\* The menu of the track screen as useState sets it.
MenuHidden == [state |-> FALSE, currentSelectedId |-> Null]

\* The track screen before it is opened.
TrackIdle ==
    /\ exerciseId = 1
    /\ sets = <<>>
    /\ menuVisible = MenuHidden

\* The state of the screens before any of them has run.
ViewsInit ==
    /\ data = <<>>
    /\ workoutGroups = <<>>
    /\ workoutView = WorkoutScreen(<<>>, FALSE)
    /\ listData = <<>>
    /\ listView = ListViewScreen(<<>>)
    /\ calendarData = <<>>
    /\ calendarView = <<>>
    /\ displayed = Null
    /\ editMode = [edit |-> FALSE, selectedExercises |-> <<>>]
    /\ effectPending = FALSE
    /\ event = [name |-> "none", arg |-> Null]

ScreensInit ==
    /\ ViewsInit
    /\ distanceInput = DistanceInputIdle
    /\ seedCalls = NoSeedCalls

----------------------------------------------------------------------------
(* Workout screen: the live query delivers its rows, the screen renders *)

Init ==
    /\ setsData \in SetsDataTables(StoredShapes)
    /\ exercises \in ExercisesTables({1})
    /\ categories \in CategoriesTables({})
    /\ setObj = SetsDataRow(1, Today, 1, <<Null, Null, Null, Null>>)
    /\ ScreensInit
    /\ TrackIdle
    /\ pc = [Idle EXCEPT !.workout = "mounted"]

WorkoutLiveQuery ==
    /\ pc.workout = "mounted"
    /\ data' = WorkoutQuery(setsData, Today)
    /\ pc' = [pc EXCEPT !.workout = "queried"]
    /\ UNCHANGED <<distanceInput, seedCalls,
                   categories, exercises, setsData, setObj, displayed,
                   workoutGroups, workoutView, listData, listView,
                   calendarData, calendarView,
                   handlerVars>>

\* A render of the workout screen.
RenderWorkout ==
    /\ data' = ReduceData(data).data
    /\ workoutGroups' = ReduceData(data).groups
    /\ workoutView' = WorkoutScreen(data, editMode.edit)

WorkoutRender ==
    /\ pc.workout = "queried"
    /\ RenderWorkout
    /\ pc' = [pc EXCEPT !.workout = "rendered"]
    /\ UNCHANGED <<distanceInput, seedCalls,
                   categories, exercises, setsData, setObj, displayed,
                   listData, listView, calendarData, calendarView,
                   handlerVars>>

Next == WorkoutLiveQuery \/ WorkoutRender

Spec == Init /\ [][Next]_vars

----------------------------------------------------------------------------
(* One setDisplayVariant call on any Set *)

InitDisplay ==
    /\ setsData = <<>>
    /\ exercises \in ExercisesTables({})
    /\ categories \in CategoriesTables({})
    /\ \E weight \in Measurements, reps \in Measurements,
          distance \in Measurements, time \in Measurements :
            setObj = SetsDataRow(1, Today, 1, <<weight, reps, distance, time>>)
    /\ ScreensInit
    /\ TrackIdle
    /\ pc = [Idle EXCEPT !.display = "ready"]

\* WorkoutListItem, ListViewItem and TrackSetListItem call the shared function.
DisplaySet ==
    /\ pc.display = "ready"
    /\ displayed' = Some(setDisplayVariant(setObj, displayVariants))
    /\ pc' = [pc EXCEPT !.display = "shared"]
    /\ UNCHANGED <<distanceInput, seedCalls,
                   categories, exercises, setsData, setObj, data,
                   workoutGroups, workoutView, listData, listView,
                   calendarData, calendarView,
                   handlerVars>>

\* The history screen calls its own copy.
DisplayHistorySet ==
    /\ pc.display = "ready"
    /\ displayed' = Some(historySetDisplayVariant(setObj))
    /\ pc' = [pc EXCEPT !.display = "history"]
    /\ UNCHANGED <<distanceInput, seedCalls,
                   categories, exercises, setsData, setObj, data,
                   workoutGroups, workoutView, listData, listView,
                   calendarData, calendarView,
                   handlerVars>>

NextDisplay == DisplaySet \/ DisplayHistorySet

SpecDisplay == InitDisplay /\ [][NextDisplay]_vars

----------------------------------------------------------------------------
(* List view: the effect queries and groups, the list renders its items *)

InitList ==
    /\ setsData \in SetsDataTables({<<Some(MaxVal), Some(0), Null, Null>>})
    /\ exercises \in ExercisesTables(CategoryIds)
    /\ categories \in CategoriesTables(CategoryIds)
    /\ setObj = SetsDataRow(1, Today, 1, <<Null, Null, Null, Null>>)
    /\ ScreensInit
    /\ TrackIdle
    /\ pc = [Idle EXCEPT !.list = "mounted"]

ListViewEffect ==
    /\ pc.list = "mounted"
    /\ listData' = FormattedData(ListQuery(setsData))
    /\ pc' = [pc EXCEPT !.list = "queried"]
    /\ UNCHANGED <<distanceInput, seedCalls,
                   categories, exercises, setsData, setObj, displayed, data,
                   workoutGroups, workoutView, listView, calendarData,
                   calendarView,
                   handlerVars>>

ListViewRender ==
    /\ pc.list = "queried"
    /\ listView' = ListViewScreen(listData)
    /\ pc' = [pc EXCEPT !.list = "rendered"]
    /\ UNCHANGED <<distanceInput, seedCalls,
                   categories, exercises, setsData, setObj, displayed, data,
                   workoutGroups, workoutView, listData,
                   calendarData, calendarView,
                   handlerVars>>

NextList == ListViewEffect \/ ListViewRender

SpecList == InitList /\ [][NextList]_vars

----------------------------------------------------------------------------
(* Calendar view: the effect queries, the days render their indicators *)

InitCalendar ==
    /\ setsData \in SetsDataTables({<<Some(MaxVal), Some(0), Null, Null>>})
    /\ exercises \in ExercisesTables(CategoryIds)
    /\ categories \in CategoriesTables(CategoryIds)
    /\ setObj = SetsDataRow(1, Today, 1, <<Null, Null, Null, Null>>)
    /\ ScreensInit
    /\ TrackIdle
    /\ pc = [Idle EXCEPT !.calendar = "mounted"]

CalendarEffect ==
    /\ pc.calendar = "mounted"
    /\ calendarData' = CalendarQuery(setsData)
    /\ pc' = [pc EXCEPT !.calendar = "queried"]
    /\ UNCHANGED <<distanceInput, seedCalls,
                   categories, exercises, setsData, setObj, displayed, data,
                   workoutGroups, workoutView, listData, listView,
                   calendarView,
                   handlerVars>>

CalendarRender ==
    /\ pc.calendar = "queried"
    /\ calendarView' = Map(DayIndicators, calendarData)
    /\ pc' = [pc EXCEPT !.calendar = "rendered"]
    /\ UNCHANGED <<distanceInput, seedCalls,
                   categories, exercises, setsData, setObj, displayed, data,
                   workoutGroups, workoutView, listData, listView,
                   calendarData,
                   handlerVars>>

NextCalendar == CalendarEffect \/ CalendarRender

SpecCalendar == InitCalendar /\ [][NextCalendar]_vars

----------------------------------------------------------------------------
(* The three aggregations over one store, each run a second time *)

InitAggregate ==
    /\ setsData \in SetsDataTables({<<Some(MaxVal), Some(0), Null, Null>>})
    /\ exercises \in {SeededExercises} \cup ExercisesTables({})
    /\ categories = SeededCategories
    /\ setObj = SetsDataRow(1, Today, 1, <<Null, Null, Null, Null>>)
    /\ ScreensInit
    /\ TrackIdle
    /\ pc = [Idle EXCEPT !.workout = "mounted", !.list = "mounted",
                         !.calendar = "mounted"]

\* The workout screen renders again over the same `data` (any state change
\* of the screen re-runs the reduce).
WorkoutRerender ==
    /\ pc.workout = "rendered"
    /\ RenderWorkout
    /\ pc' = [pc EXCEPT !.workout = "rerendered"]
    /\ UNCHANGED <<distanceInput, seedCalls,
                   categories, exercises, setsData, setObj, displayed,
                   listData, listView, calendarData, calendarView,
                   handlerVars>>

\* The list view is opened again over the same store: its effect queries
\* and groups again.
ListViewEffectAgain ==
    /\ pc.list = "rendered"
    /\ listData' = FormattedData(ListQuery(setsData))
    /\ pc' = [pc EXCEPT !.list = "requeried"]
    /\ UNCHANGED <<distanceInput, seedCalls,
                   categories, exercises, setsData, setObj, displayed, data,
                   workoutGroups, workoutView, listView, calendarData,
                   calendarView, handlerVars>>

NextAggregate ==
    \/ WorkoutLiveQuery
    \/ WorkoutRender
    \/ WorkoutRerender
    \/ ListViewEffect
    \/ ListViewRender
    \/ ListViewEffectAgain
    \/ CalendarEffect
    \/ CalendarRender

SpecAggregate == InitAggregate /\ [][NextAggregate]_vars

----------------------------------------------------------------------------
(* The workout screen in use: presses, long presses, the back button and   *)
(* the delete button.  React runs the effects of a render before the next  *)
(* event is handled, and a render follows every change of state.           *)

InitWorkout ==
    /\ setsData \in SetsDataTables({<<Some(MaxVal), Some(0), Null, Null>>})
    /\ exercises = SeededExercises
    /\ categories = SeededCategories
    /\ setObj = SetsDataRow(1, Today, 1, <<Null, Null, Null, Null>>)
    /\ ScreensInit
    /\ TrackIdle
    /\ pc = [Idle EXCEPT !.workout = "mounted"]

\* The exercises whose WorkoutListItem is on the screen.
ShownExercises == {workoutGroups[g].exerciseId : g \in 1..Len(workoutGroups)}

\* The screen takes an event: it is mounted, its last render is done and
\* the effects of that render have run.
WorkoutIdle == pc.workout \in {"mounted", "rendered"} /\ ~effectPending

\* setEditMode with a new selectedExercises array: the state, the render
\* and the effect that the new array makes due.
SetEditMode(state) ==
    /\ editMode' = state
    /\ workoutView' = WorkoutScreen(data, state.edit)
    /\ effectPending' = TRUE

\* onLongPress of a WorkoutListItem
LongPress(id) ==
    /\ WorkoutIdle
    /\ id \in ShownExercises
    /\ SetEditMode(handleEditMode(editMode, id))
    /\ event' = [name |-> "handleEditMode", arg |-> Some(id)]
    /\ UNCHANGED <<distanceInput, seedCalls,
                   categories, exercises, setsData, setObj, displayed, data,
                   workoutGroups, listData, listView, calendarData,
                   calendarView, exerciseId, sets, menuVisible, pc>>

\* onPress of a WorkoutListItem: in edit mode handleEditMode, else the
\* router opens the exercise.
Press(id) ==
    /\ WorkoutIdle
    /\ id \in ShownExercises
    /\ IF editMode.edit
       THEN /\ SetEditMode(handleEditMode(editMode, id))
            /\ event' = [name |-> "handleEditMode", arg |-> Some(id)]
       ELSE /\ event' = [name |-> "router.push", arg |-> Some(id)]
            /\ UNCHANGED <<editMode, workoutView, effectPending>>
    /\ UNCHANGED <<distanceInput, seedCalls,
                   categories, exercises, setsData, setObj, displayed, data,
                   workoutGroups, listData, listView, calendarData,
                   calendarView, exerciseId, sets, menuVisible, pc>>

\* hardwareBackPress
BackPress ==
    /\ WorkoutIdle
    /\ IF editMode.edit
       THEN SetEditMode(onBackPress(editMode))
       ELSE UNCHANGED <<editMode, workoutView, effectPending>>
    /\ event' = [name |-> "onBackPress", arg |-> Null]
    /\ UNCHANGED <<distanceInput, seedCalls,
                   categories, exercises, setsData, setObj, displayed, data,
                   workoutGroups, listData, listView, calendarData,
                   calendarView, exerciseId, sets, menuVisible, pc>>

\* The effect on [editMode.selectedExercises]; the state it sets keeps the
\* array, so it does not make itself due again.
ExitEditModeEffect ==
    /\ pc.workout # "idle"
    /\ effectPending
    /\ editMode' = exitEditMode(editMode)
    /\ workoutView' = WorkoutScreen(data, editMode'.edit)
    /\ effectPending' = FALSE
    /\ UNCHANGED <<distanceInput, seedCalls,
                   categories, exercises, setsData, setObj, displayed, data,
                   workoutGroups, listData, listView, calendarData,
                   calendarView, exerciseId, sets, menuVisible, event, pc>>

\* handleDeleteExercises, from the delete button that edit mode shows; the
\* screen's date is the day it was opened.  The delete makes the live query
\* run again.
HandleDeleteExercises ==
    /\ WorkoutIdle
    /\ editMode.edit
    /\ setsData' = DeleteExercises(setsData, Today, Selected(editMode))
    /\ SetEditMode([edit |-> FALSE, selectedExercises |-> <<>>])
    /\ event' = [name |-> "handleDeleteExercises",
                 arg |-> Some(editMode.selectedExercises)]
    /\ pc' = [pc EXCEPT !.workout = "mounted"]
    /\ UNCHANGED <<distanceInput, seedCalls,
                   categories, exercises, setObj, displayed, data,
                   workoutGroups, listData, listView, calendarData,
                   calendarView, exerciseId, sets, menuVisible>>

NextWorkout ==
    \/ WorkoutLiveQuery
    \/ WorkoutRender
    \/ ExitEditModeEffect
    \/ BackPress
    \/ HandleDeleteExercises
    \/ \E id \in ExerciseIds : LongPress(id) \/ Press(id)

SpecWorkout == InitWorkout /\ [][NextWorkout]_vars

----------------------------------------------------------------------------
(* List view over a store with sets of yesterday, today and tomorrow *)

\* Two of the seeded exercises: on the track screen the one it is opened
\* for and another one.
TrackedExercises == {1, 2}

\* The days of the sets: a day before today, today and a day after it.
AroundToday == (Today - 1)..LastDate

\* sets_data with rows of the three days: ids are the rowids 1..n, every
\* set is a weight-and-reps set of a seeded exercise.
TablesAroundToday ==
    UNION {{[i \in 1..n |->
                SetsDataRow(i, f[i][1], f[i][2],
                            <<Some(MaxVal), Some(0), Null, Null>>)] :
                f \in [1..n -> AroundToday \X TrackedExercises]} :
           n \in 0..MaxRows}

InitToday ==
    /\ setsData \in TablesAroundToday
    /\ exercises = SeededExercises
    /\ categories = SeededCategories
    /\ setObj = SetsDataRow(1, Today, 1, <<Null, Null, Null, Null>>)
    /\ ScreensInit
    /\ TrackIdle
    /\ pc = [Idle EXCEPT !.list = "mounted"]

SpecToday == InitToday /\ [][NextList]_vars

----------------------------------------------------------------------------
(* The track screen in use: sets are added, saved and deleted *)

\* The days a stored set can be of: today and the two days before.
TrackDates == FirstDate..Today

\* sets_data as the screen can find it: ids are the rowids 1..n, every set
\* is a weight-and-reps set with a note, and no two sets have one weight.
TrackTables ==
    UNION {{[i \in 1..n |->
                [SetsDataRow(i, f[i][1], f[i][2],
                             <<Some(MaxVal + i), Some(0), Null, Null>>)
                    EXCEPT !.notes = Some("warm up")]] :
                f \in [1..n -> TrackDates \X TrackedExercises]} :
           n \in 0..MaxRows}

InitTrack ==
    /\ setsData \in TrackTables
    /\ exercises = SeededExercises
    /\ categories = SeededCategories
    /\ setObj = SetsDataRow(1, Today, 1, <<Null, Null, Null, Null>>)
    /\ ScreensInit
    /\ exerciseId = 1
    /\ sets = <<>>
    /\ menuVisible = MenuHidden
    /\ pc = [Idle EXCEPT !.track = "mounted"]

\* The mount effect of the screen.
TrackEffect ==
    /\ pc.track = "mounted"
    /\ sets' = TrackQuery(setsData, exerciseId)
    /\ pc' = [pc EXCEPT !.track = "ready"]
    /\ UNCHANGED <<distanceInput, seedCalls,
                   categories, exercises, setsData, setObj, displayed, data,
                   workoutGroups, workoutView, listData, listView,
                   calendarData, calendarView, editMode, effectPending,
                   exerciseId, menuVisible, event>>

\* addNewSet, from the ADD SET button.
AddNewSet ==
    /\ pc.track = "ready"
    /\ Len(setsData) < MaxRows
    /\ LET newSet == NewSet(setsData, sets, exerciseId)
       IN  IF newSet = Null
           THEN UNCHANGED <<setsData, sets>>
           ELSE LET inserted == [newSet[1] EXCEPT !.id = NextId(setsData)]
                IN  /\ setsData' = Append(setsData, inserted)
                    /\ sets' = Append(sets, inserted)
    /\ event' = [name |-> "addNewSet", arg |-> Null]
    /\ UNCHANGED <<distanceInput, seedCalls,
                   categories, exercises, setObj, displayed, data,
                   workoutGroups, workoutView, listData, listView,
                   calendarData, calendarView, editMode, effectPending,
                   exerciseId, menuVisible, pc>>

\* saveSet of a TrackSetListItem: the item writes its own state to the row
\* of its set; the screen's `sets` is not told.
SaveSet(id, weight) ==
    /\ pc.track = "ready"
    /\ \E i \in 1..Len(sets) : sets[i].id = id
    /\ setsData' = [i \in 1..Len(setsData) |->
                        IF setsData[i].id = id
                        THEN [setsData[i] EXCEPT !.weight = weight]
                        ELSE setsData[i]]
    /\ event' = [name |-> "saveSet", arg |-> Some(id)]
    /\ UNCHANGED <<distanceInput, seedCalls,
                   categories, exercises, setObj, displayed, data,
                   workoutGroups, workoutView, listData, listView,
                   calendarData, calendarView, editMode, effectPending,
                   exerciseId, sets, menuVisible, pc>>

\* handleMenuVisible, from the menu button of a TrackSetListItem.
HandleMenuVisible(id) ==
    /\ pc.track = "ready"
    /\ \E i \in 1..Len(sets) : sets[i].id = id
    /\ menuVisible' = [state |-> ~menuVisible.state,
                       currentSelectedId |-> Some(id)]
    /\ event' = [name |-> "handleMenuVisible", arg |-> Some(id)]
    /\ UNCHANGED <<distanceInput, seedCalls,
                   categories, exercises, setsData, setObj, displayed, data,
                   workoutGroups, workoutView, listData, listView,
                   calendarData, calendarView, editMode, effectPending,
                   exerciseId, sets, pc>>

\* onTouchEnd of the list: the menu is hidden.
TouchEnd ==
    /\ pc.track = "ready"
    /\ menuVisible' = MenuHidden
    /\ event' = [name |-> "onTouchEnd", arg |-> Null]
    /\ UNCHANGED <<distanceInput, seedCalls,
                   categories, exercises, setsData, setObj, displayed, data,
                   workoutGroups, workoutView, listData, listView,
                   calendarData, calendarView, editMode, effectPending,
                   exerciseId, sets, pc>>

\* deleteSet, called in any state of the menu.
DeleteSet ==
    /\ pc.track = "ready"
    /\ IF menuVisible.currentSelectedId = Null
       THEN UNCHANGED <<setsData, sets, menuVisible>>
       ELSE /\ setsData' = DeleteSetRow(setsData,
                                        menuVisible.currentSelectedId[1])
            /\ menuVisible' = MenuHidden
            /\ sets' = SelectSeq(sets, LAMBDA set :
                            set.id # menuVisible.currentSelectedId[1])
    /\ event' = [name |-> "deleteSet", arg |-> menuVisible.currentSelectedId]
    /\ UNCHANGED <<distanceInput, seedCalls,
                   categories, exercises, setObj, displayed, data,
                   workoutGroups, workoutView, listData, listView,
                   calendarData, calendarView, editMode, effectPending,
                   exerciseId, pc>>

NextTrack ==
    \/ TrackEffect
    \/ AddNewSet
    \/ TouchEnd
    \/ DeleteSet
    \/ \E id \in 1..(MaxRows + 1) :
            \/ HandleMenuVisible(id)
            \/ \E weight \in {Some(0), Some(MaxVal)} : SaveSet(id, weight)

SpecTrack == InitTrack /\ [][NextTrack]_vars

----------------------------------------------------------------------------
(* The track screen of an exercise of each of the ten types *)

\* The values of exercises.type.
ExerciseTypes ==
    {"Distance", "Distance And Time", "Reps", "Reps And Distance",
     "Reps And Time", "Time", "Weight", "Weight And Distance",
     "Weight And Reps", "Weight And Time"}

\* The measurements a set of the type has.
TypeFields(type) ==
    CASE type = "Distance" -> {"distance"}
      [] type = "Distance And Time" -> {"distance", "time"}
      [] type = "Reps" -> {"reps"}
      [] type = "Reps And Distance" -> {"reps", "distance"}
      [] type = "Reps And Time" -> {"reps", "time"}
      [] type = "Time" -> {"time"}
      [] type = "Weight" -> {"weight"}
      [] type = "Weight And Distance" -> {"weight", "distance"}
      [] type = "Weight And Reps" -> {"weight", "reps"}
      [] type = "Weight And Time" -> {"weight", "time"}

\* The measurements of a stored set of the type.
TypeShape(type) ==
    <<IF "weight" \in TypeFields(type) THEN Some(MaxVal) ELSE Null,
      IF "reps" \in TypeFields(type) THEN Some(MaxVal) ELSE Null,
      IF "distance" \in TypeFields(type) THEN Some(MaxVal) ELSE Null,
      IF "time" \in TypeFields(type) THEN Some(MaxVal) ELSE Null>>

\* The measurements of a set that are not null.
MeasuredFields(set) ==
    {field \in {"weight", "reps", "distance", "time"} : set[field] # Null}

\* The exercises table with the tracked exercise, of the type.
ExerciseOfType(type) ==
    [id \in {1} |-> [id |-> id, name |-> ExerciseName(id),
                     category_id |-> 1, type |-> type]]

\* sets_data with sets of the exercise only, each of the shape of its type.
TablesOfType(type) ==
    UNION {{[i \in 1..n |-> SetsDataRow(i, f[i], 1, TypeShape(type))] :
                f \in [1..n -> TrackDates]} :
           n \in 0..MaxRows}

InitShape ==
    /\ \E type \in ExerciseTypes :
        /\ exercises = ExerciseOfType(type)
        /\ setsData \in TablesOfType(type)
    /\ categories = SeededCategories
    /\ setObj = SetsDataRow(1, Today, 1, <<Null, Null, Null, Null>>)
    /\ ScreensInit
    /\ exerciseId = 1
    /\ sets = <<>>
    /\ menuVisible = MenuHidden
    /\ pc = [Idle EXCEPT !.track = "mounted"]

NextShape ==
    \/ TrackEffect
    \/ AddNewSet
    \/ TouchEnd
    \/ DeleteSet
    \/ \E id \in 1..(MaxRows + 1) : HandleMenuVisible(id)

SpecShape == InitShape /\ [][NextShape]_vars

----------------------------------------------------------------------------
(* seedDatabase (database/seedDatabase.ts), called by the provider's effect *)
(* at mount and again when the migrations have ended.  The tables exist;   *)
(* the build is a development build.  A call runs to its next await in one *)
(* step; whether the effect's second run comes between two awaits of the   *)
(* first call or after them is the scheduler's choice.                     *)

\* What the provider's effect does not touch.
outsideSeed == <<setObj, displayed, data, workoutGroups, workoutView,
                 listData, listView, calendarData, calendarView, editMode,
                 effectPending, exerciseId, sets, menuVisible, distanceInput,
                 pc>>

\* db.insert(table).values(rows): the rows are added, or none is when an id
\* (the primary key; the unique names go with the ids) is in the table.
InsertRows(table, rows) ==
    IF DOMAIN table \cap DOMAIN rows # {} THEN Null
    ELSE Some([id \in DOMAIN table \cup DOMAIN rows |->
                 IF id \in DOMAIN rows THEN rows[id] ELSE table[id]])

\* The statement a call awaits next, after the statement `from`, by the
\* tables as the call read them when it began.
NextStatement(read, from) ==
    IF from = "start" /\ read.categories = <<>> THEN "insertCategories"
    ELSE IF from \in {"start", "insertCategories"} /\ read.exercises = <<>>
    THEN "insertExercises"
    ELSE "deleteSets"

\* A row of mockWorkoutData.json, stored under the next rowid.
MockWorkoutRow(rows) ==
    SetsDataRow(NextId(rows), Today - 1, 1, <<Some(MaxVal), Some(0), Null, Null>>)

InitSeed ==
    /\ setsData \in {t \in SetsDataTables({<<Some(MaxVal), Some(0), Null, Null>>}) :
                        Len(t) <= 1}
    /\ categories \in {<<>>, SeededCategories}
    /\ exercises \in {<<>>, SeededExercises}
    /\ exercises # <<>> => categories # <<>>
    /\ setObj = SetsDataRow(1, Today, 1, <<Null, Null, Null, Null>>)
    /\ ViewsInit
    /\ TrackIdle
    /\ distanceInput = DistanceInputIdle
    /\ seedCalls = NoSeedCalls
    /\ pc = Idle

\* The effect calls seedDatabase: the call reads the two tables and goes on
\* to its first await.
CallSeedDatabase(call) ==
    /\ seedCalls[call].pc = "idle"
    /\ \A earlier \in SeedCalls :
            earlier < call => seedCalls[earlier].pc # "idle"
    /\ LET read == [categories |-> categories, exercises |-> exercises]
       IN  seedCalls' = [seedCalls EXCEPT ![call] =
                            [pc |-> NextStatement(read, "start"),
                             categories |-> read.categories,
                             exercises |-> read.exercises]]
    /\ event' = [name |-> "seedDatabase", arg |-> Some(call)]
    /\ UNCHANGED <<categories, exercises, setsData>>
    /\ UNCHANGED outsideSeed

\* await db.insert(schema.categories).values(categoriesData)
InsertCategories(call) ==
    /\ seedCalls[call].pc = "insertCategories"
    /\ LET inserted == InsertRows(categories, SeededCategories)
       IN  IF inserted = Null
           THEN /\ seedCalls' = [seedCalls EXCEPT ![call].pc = "failed"]
                /\ UNCHANGED categories
           ELSE /\ seedCalls' = [seedCalls EXCEPT ![call].pc =
                        NextStatement(seedCalls[call], "insertCategories")]
                /\ categories' = inserted[1]
    /\ event' = [name |-> "insertCategories", arg |-> Some(call)]
    /\ UNCHANGED <<exercises, setsData>>
    /\ UNCHANGED outsideSeed

\* await db.insert(schema.exercises).values(exercisesData)
InsertExercises(call) ==
    /\ seedCalls[call].pc = "insertExercises"
    /\ LET inserted == InsertRows(exercises, SeededExercises)
       IN  IF inserted = Null
           THEN /\ seedCalls' = [seedCalls EXCEPT ![call].pc = "failed"]
                /\ UNCHANGED exercises
           ELSE /\ seedCalls' = [seedCalls EXCEPT ![call].pc =
                        NextStatement(seedCalls[call], "insertExercises")]
                /\ exercises' = inserted[1]
    /\ event' = [name |-> "insertExercises", arg |-> Some(call)]
    /\ UNCHANGED <<categories, setsData>>
    /\ UNCHANGED outsideSeed

\* await db.delete(schema.setsData)
DeleteSets(call) ==
    /\ seedCalls[call].pc = "deleteSets"
    /\ setsData' = <<>>
    /\ seedCalls' = [seedCalls EXCEPT ![call].pc = "insertSets"]
    /\ event' = [name |-> "deleteSets", arg |-> Some(call)]
    /\ UNCHANGED <<categories, exercises>>
    /\ UNCHANGED outsideSeed

\* await db.insert(schema.setsData).values(workoutsTestData)
InsertSets(call) ==
    /\ seedCalls[call].pc = "insertSets"
    /\ setsData' = Append(setsData, MockWorkoutRow(setsData))
    /\ seedCalls' = [seedCalls EXCEPT ![call].pc = "done"]
    /\ event' = [name |-> "insertSets", arg |-> Some(call)]
    /\ UNCHANGED <<categories, exercises>>
    /\ UNCHANGED outsideSeed

NextSeed ==
    \E call \in SeedCalls :
        \/ CallSeedDatabase(call)
        \/ InsertCategories(call)
        \/ InsertExercises(call)
        \/ DeleteSets(call)
        \/ InsertSets(call)

SpecSeed == InitSeed /\ [][NextSeed]_vars

----------------------------------------------------------------------------
(* A DistanceInput in use: the modal is opened, edited, saved or dismissed *)

InitInput ==
    /\ setsData = <<>>
    /\ exercises = SeededExercises
    /\ categories = SeededCategories
    /\ setObj = SetsDataRow(1, Today, 1, <<Null, Null, Null, Null>>)
    /\ ViewsInit
    /\ TrackIdle
    /\ distanceInput \in {[DistanceInputIdle EXCEPT !.value = v] :
                            v \in {"0", "7"}}
    /\ seedCalls = NoSeedCalls
    /\ pc = Idle

\* The effect on [value, suffix]: the state takes the props.
InputEffect ==
    /\ distanceInput.effectDue
    /\ distanceInput' =
            [distanceInput EXCEPT
                !.state = [distance |-> distanceInput.value,
                           distanceUnit |-> distanceInput.suffix],
                !.effectDue = FALSE]
    /\ event' = [name |-> "useEffect", arg |-> Null]
    /\ UNCHANGED outsideInput

\* The button that shows the value is pressed.
OpenModal ==
    /\ ~distanceInput.effectDue
    /\ ~distanceInput.modalState
    /\ distanceInput' = [distanceInput EXCEPT !.modalState = TRUE]
    /\ event' = [name |-> "setModalState", arg |-> Null]
    /\ UNCHANGED outsideInput

\* The modal is on the screen and no effect is due.
ModalOpen == distanceInput.modalState /\ ~distanceInput.effectDue

ChangeDistance(val) ==
    /\ ModalOpen
    /\ distanceInput' =
            [distanceInput EXCEPT !.state.distance = ProcessedVal(val)]
    /\ event' = [name |-> "distanceOnChangeFunc", arg |-> Some(val)]
    /\ UNCHANGED outsideInput

BlurDistance ==
    /\ ModalOpen
    /\ distanceInput' =
            [distanceInput EXCEPT !.state = distanceOnBlurFunc(@)]
    /\ event' = [name |-> "distanceOnBlurFunc", arg |-> Null]
    /\ UNCHANGED outsideInput

\* onValueChange of the picker.
ChangeUnit(unit) ==
    /\ ModalOpen
    /\ distanceInput' = [distanceInput EXCEPT !.state.distanceUnit = unit]
    /\ event' = [name |-> "onValueChange", arg |-> Some(unit)]
    /\ UNCHANGED outsideInput

\* The SAVE button.
SavePress ==
    /\ ModalOpen
    /\ Len(distanceInput.saved) < MaxSaves
    /\ distanceInput' = handleSave(distanceInput)
    /\ event' = [name |-> "handleSave", arg |-> Null]
    /\ UNCHANGED outsideInput

\* The CANCEL button.
CancelPress ==
    /\ ModalOpen
    /\ distanceInput' = handleCancel(distanceInput)
    /\ event' = [name |-> "handleCancel", arg |-> Some("cancel")]
    /\ UNCHANGED outsideInput

\* A press on the backdrop of the modal.
BackdropPress ==
    /\ ModalOpen
    /\ distanceInput' = handleCancel(distanceInput)
    /\ event' = [name |-> "handleCancel", arg |-> Some("backdrop")]
    /\ UNCHANGED outsideInput

\* onRequestClose of the modal: the back button.
RequestClose ==
    /\ ModalOpen
    /\ distanceInput' = handleCancel(distanceInput)
    /\ event' = [name |-> "handleCancel", arg |-> Some("onRequestClose")]
    /\ UNCHANGED outsideInput

NextInput ==
    \/ InputEffect
    \/ OpenModal
    \/ \E val \in TypedTexts : ChangeDistance(val)
    \/ BlurDistance
    \/ \E unit \in DistanceUnits : ChangeUnit(unit)
    \/ SavePress
    \/ CancelPress
    \/ BackdropPress
    \/ RequestClose

SpecInput == InitInput /\ [][NextInput]_vars

----------------------------------------------------------------------------
(* The screens while seedDatabase replaces the workout data (development   *)
(* mode): the provider's effect starts the seeding when the app opens, and *)
(* each of its statements runs once the one before it has resolved.        *)

\* useLiveQuery's change listener: a change of sets_data makes a mounted
\* workout screen run its query again.  The listener is taken to be
\* delivered every change.
NotifyLiveQuery ==
    pc' = [pc EXCEPT !.workout = IF @ = "idle" THEN "idle" ELSE "mounted",
                     !.seed = IF @ = "seeding" THEN "cleared" ELSE "done"]

InitLive ==
    /\ setsData \in {t \in SetsDataTables({<<Some(MaxVal), Some(0), Null, Null>>}) :
                        Len(t) <= 1}
    /\ exercises = SeededExercises
    /\ categories = SeededCategories
    /\ setObj = SetsDataRow(1, Today, 1, <<Null, Null, Null, Null>>)
    /\ ScreensInit
    /\ TrackIdle
    /\ pc = [Idle EXCEPT !.workout = "mounted", !.list = "mounted",
                         !.calendar = "mounted", !.seed = "seeding"]

\* await db.delete(schema.setsData)
SeedDeleteSets ==
    /\ pc.seed = "seeding"
    /\ setsData' = <<>>
    /\ NotifyLiveQuery
    /\ UNCHANGED <<distanceInput, seedCalls,
                   categories, exercises, setObj, displayed, data,
                   workoutGroups, workoutView, listData, listView,
                   calendarData, calendarView, handlerVars>>

\* await db.insert(schema.setsData).values(workoutsTestData)
SeedInsertSets ==
    /\ pc.seed = "cleared"
    /\ setsData' \in {t \in SetsDataTables({<<Some(MaxVal), Some(0), Null, Null>>}) :
                         Len(t) = 1}
    /\ NotifyLiveQuery
    /\ UNCHANGED <<distanceInput, seedCalls,
                   categories, exercises, setObj, displayed, data,
                   workoutGroups, workoutView, listData, listView,
                   calendarData, calendarView, handlerVars>>

NextLive ==
    \/ SeedDeleteSets
    \/ SeedInsertSets
    \/ WorkoutLiveQuery
    \/ WorkoutRender
    \/ ListViewEffect
    \/ ListViewRender
    \/ CalendarEffect
    \/ CalendarRender

\* Effects, renders, listeners and the continuations of the awaits are all
\* run by the event loop: none of them waits forever.
SpecLive == InitLive /\ [][NextLive]_vars /\ WF_vars(NextLive)

----------------------------------------------------------------------------
(* Properties of setDisplayVariant *)

\* The ten legal combinations of non-null fields and the key of each.
CanonicalKey(set) ==
    LET p == <<set.weight # Null, set.reps # Null,
               set.distance # Null, set.time # Null>>
    IN  CASE p = <<TRUE, TRUE, FALSE, FALSE>> -> "weight_reps"
          [] p = <<FALSE, FALSE, TRUE, TRUE>> -> "distance_time"
          [] p = <<TRUE, FALSE, TRUE, FALSE>> -> "weight_distance"
          [] p = <<TRUE, FALSE, FALSE, TRUE>> -> "weight_time"
          [] p = <<FALSE, TRUE, TRUE, FALSE>> -> "reps_distance"
          [] p = <<FALSE, TRUE, FALSE, TRUE>> -> "reps_time"
          [] p = <<TRUE, FALSE, FALSE, FALSE>> -> "weight"
          [] p = <<FALSE, TRUE, FALSE, FALSE>> -> "reps"
          [] p = <<FALSE, FALSE, TRUE, FALSE>> -> "distance"
          [] p = <<FALSE, FALSE, FALSE, TRUE>> -> "time"
          [] OTHER -> "none"

LegalShape(set) == CanonicalKey(set) # "none"

\* C1: for a Set of one of the ten legal shapes (a 0 is a value), both
\* setDisplayVariant functions return the element of the dictionary entry
\* whose key is the non-null field names joined by "_" in the order weight,
\* reps, distance, time.
C1_LegalShapeDispatchesToCanonicalKey ==
    (pc.display \in {"shared", "history"} /\ LegalShape(setObj))
        => displayed = Some([threw |-> FALSE, entry |-> CanonicalKey(setObj),
                             set |-> setObj])

\* C1 happens: a set with distance 0 and a time was shown as distance_time.
C1_Witness ==
    /\ pc.display = "shared"
    /\ setObj.weight = Null /\ setObj.reps = Null
    /\ setObj.distance = Some(0) /\ setObj.time # Null
    /\ displayed # Null
    /\ displayed[1].entry = "distance_time"

\* C7: for a Set with zero, three or four non-null measurement fields the
\* call throws to its caller and returns the element of none of the ten
\* entries.
C7_MalformedShapeThrows ==
    (pc.display \in {"shared", "history"} /\ ~LegalShape(setObj))
        => /\ displayed # Null
           /\ displayed[1].threw
           /\ displayed[1].entry \notin displayVariants

\* C7 happens: a call on a set with three non-null fields has thrown.
C7_Witness ==
    /\ pc.display = "shared"
    /\ setObj.weight # Null /\ setObj.reps # Null
    /\ setObj.distance # Null /\ setObj.time = Null
    /\ displayed # Null
    /\ displayed[1].threw

----------------------------------------------------------------------------
(* Properties of the workout screen's grouping *)

\* The places of the sets in the groups: <<group, position>>.
GroupSlots(groups) ==
    UNION {{<<g, k>> : k \in 1..Len(groups[g].sets)} : g \in 1..Len(groups)}

\* The rows of `rows` whose set has exercise_id `id`, by index.
RowsOfExercise(rows, id) ==
    {i \in 1..Len(rows) : rows[i].setsData.exercise_id = id}

\* The indexes of the rows whose set has id `id`.
RowsOfSet(rows, id) == {i \in 1..Len(rows) : rows[i].setsData.id = id}

Earlier(S, T) == S # {} /\ T # {} /\ \E i \in S : \A j \in T : i < j

\* C2: the groups the workout screen builds never hold two groups with the
\* same exercise_id.
C2_NoTwoGroupsShareExerciseId ==
    pc.workout = "rendered"
        => \A i, j \in 1..Len(workoutGroups) :
                i # j => workoutGroups[i].exerciseId # workoutGroups[j].exerciseId

\* C2 happens: two groups were built and a later row found its group.
C2_Witness ==
    /\ pc.workout = "rendered"
    /\ Len(workoutGroups) = 2
    /\ \E g \in 1..2 : Len(workoutGroups[g].sets) = 2

\* C3: groups are listed in the order in which their exercise_id first
\* occurs in the rows, and the sets of a group in the order of their rows.
C3_GroupsAndSetsKeepInputOrder ==
    pc.workout = "rendered"
        => /\ \A i, j \in 1..Len(workoutGroups) :
                i < j => Earlier(RowsOfExercise(data, workoutGroups[i].exerciseId),
                                 RowsOfExercise(data, workoutGroups[j].exerciseId))
           /\ \A g \in 1..Len(workoutGroups) :
                \A a, b \in 1..Len(workoutGroups[g].sets) :
                    a < b => Earlier(RowsOfSet(data, workoutGroups[g].sets[a].id),
                                     RowsOfSet(data, workoutGroups[g].sets[b].id))

\* C3 happens: the rows of one exercise were interleaved with another's.
C3_Witness ==
    /\ pc.workout = "rendered"
    /\ Len(data) = 3
    /\ data[1].setsData.exercise_id = data[3].setsData.exercise_id
    /\ data[1].setsData.exercise_id # data[2].setsData.exercise_id
    /\ Len(workoutGroups) = 2

\* C4: every row's set is in exactly one place of the groups, in the group
\* of the row's exercise_id, and the groups hold as many sets as there are
\* rows.
C4_EverySetInExactlyItsGroup ==
    pc.workout = "rendered"
        => /\ \A i \in 1..Len(data) :
                LET places == {s \in GroupSlots(workoutGroups) :
                                 workoutGroups[s[1]].sets[s[2]] = data[i].setsData}
                IN  /\ Cardinality(places) = 1
                    /\ \A s \in places :
                         workoutGroups[s[1]].exerciseId
                            = data[i].setsData.exercise_id
           /\ Cardinality(GroupSlots(workoutGroups)) = Len(data)

\* C4 happens: three rows of two exercises were grouped.
C4_Witness ==
    /\ pc.workout = "rendered"
    /\ Len(data) >= 3
    /\ Len(workoutGroups) >= 2

\* C8: when one set of the rendered list has an unrecognized shape, the
\* render completes and shows every other set through its entry.
C8_MalformedSetDoesNotAbortRender ==
    (/\ pc.workout = "rendered"
     /\ Cardinality({i \in 1..Len(data) : ~LegalShape(data[i].setsData)}) = 1)
        => /\ ~workoutView.threw
           /\ \A i \in 1..Len(data) :
                LegalShape(data[i].setsData)
                    => \E g \in 1..Len(workoutView.items) :
                         \E k \in 1..Len(workoutView.items[g].sets) :
                            workoutView.items[g].sets[k]
                                = [threw |-> FALSE,
                                   entry |-> CanonicalKey(data[i].setsData),
                                   set |-> data[i].setsData]

----------------------------------------------------------------------------
(* Properties of the list view and the calendar view *)

\* The indexes of the groups of `groups` that carry category name `name`.
GroupsOfCategory(groups, name) ==
    {i \in 1..Len(groups) : groups[i].category_name = name}

\* C5: a ListViewItem's category summary has one entry per distinct
\* category_name of the date's exercise groups (M entries for M names), in
\* the order of the first group that carries each name, with the colour of
\* that group.
C5_CategorySummaryIsFirstOccurrences ==
    pc.list = "rendered"
        => \A w \in 1..Len(listData) :
            LET groups == listData[w].data
                summary == listView.items[w].categories
            IN  ~listView.items[w].threw
                => /\ Len(summary)
                        = Cardinality({groups[i].category_name :
                                          i \in 1..Len(groups)})
                   /\ \A i \in 1..Len(groups) :
                        \E a \in 1..Len(summary) :
                            summary[a].category_name = groups[i].category_name
                   /\ \A a, b \in 1..Len(summary) :
                        a < b => Earlier(
                            GroupsOfCategory(groups, summary[a].category_name),
                            GroupsOfCategory(groups, summary[b].category_name))
                   /\ \A a \in 1..Len(summary) :
                        \E i \in GroupsOfCategory(groups, summary[a].category_name) :
                            /\ \A j \in GroupsOfCategory(groups,
                                                         summary[a].category_name) :
                                   i <= j
                            /\ summary[a].category_colour
                                   = groups[i].category_colour

\* C5 happens: two exercise groups of one date share a category, and the
\* summary of that date has one entry.
C5_Witness ==
    /\ pc.list = "rendered"
    /\ \E w \in 1..Len(listData) :
        /\ ~listView.items[w].threw
        /\ Len(listData[w].data) = 2
        /\ listData[w].data[1].category_name # Null
        /\ Len(listView.items[w].categories) = 1

\* The rows of sets_data whose exercise exists.
RowsWithExercise ==
    SelectSeq(setsData, LAMBDA row : JoinedExercise(row.exercise_id) # Null)

\* C6: rows whose joined exercise_name is null are left out of the output of
\* the workout screen and of the list view, the aggregation and the render
\* do not throw, and the groups are those that the other rows alone give.
C6_DanglingRowsAreLeftOut ==
    /\ pc.workout = "rendered"
        => /\ workoutGroups
                = TransformExerciseData(WorkoutQuery(RowsWithExercise, Today))
           /\ (\A i \in 1..Len(data) : LegalShape(data[i].setsData))
                => ~workoutView.threw
    /\ pc.list = "rendered"
        => /\ listData = FormattedData(ListQuery(RowsWithExercise))
           /\ ~listView.threw

\* The groups of the workout screen that hold the set with id `id`.
WorkoutGroupsOfSet(id) ==
    {g \in 1..Len(workoutGroups) :
        \E k \in 1..Len(workoutGroups[g].sets) :
            workoutGroups[g].sets[k].id = id}

\* The groups of the list view that hold the set with id `id`.
ListGroupsOfSet(id) ==
    UNION {{<<w, g>> : g \in {h \in 1..Len(listData[w].data) :
                                \E k \in 1..Len(listData[w].data[h].sets) :
                                    listData[w].data[h].sets[k].id = id}} :
           w \in 1..Len(listData)}

\* C9: in the workout screen and in the list view two rows of one date are
\* in the same exercise group if and only if they have the same exercise_id,
\* whatever their names are.
C9_SameGroupIffSameExerciseId ==
    /\ pc.workout = "rendered"
        => \A i, j \in 1..Len(data) :
            (WorkoutGroupsOfSet(data[i].setsData.id)
                \cap WorkoutGroupsOfSet(data[j].setsData.id) # {})
            <=> data[i].setsData.exercise_id = data[j].setsData.exercise_id
    /\ pc.list \in {"queried", "rendered"}
        => \A i, j \in 1..Len(setsData) :
            setsData[i].date = setsData[j].date
                => ((ListGroupsOfSet(setsData[i].id)
                        \cap ListGroupsOfSet(setsData[j].id) # {})
                    <=> setsData[i].exercise_id = setsData[j].exercise_id)

\* C10: the colours the calendar view holds for a date contain no colour
\* twice.
C10_NoColourTwiceOnADate ==
    pc.calendar \in {"queried", "rendered"}
        => \A d \in 1..Len(calendarData) :
            calendarData[d].categories # Null
                => \A a, b \in 1..Len(calendarData[d].categories[1]) :
                    a # b => calendarData[d].categories[1][a]
                                # calendarData[d].categories[1][b]

----------------------------------------------------------------------------
(* Properties of the aggregations as functions of their rows *)

\* C11: with no rows every aggregation gives an empty result and nothing
\* throws: the workout screen builds no group, the list view an empty list
\* of workouts, the calendar view an empty list of dates.
C11_EmptyRowsGiveEmptyResults ==
    /\ (pc.workout \in {"rendered", "rerendered"} /\ data = <<>>)
            => /\ workoutGroups = <<>>
               /\ workoutView = [threw |-> FALSE, items |-> <<>>]
    /\ (pc.list \in {"queried", "rendered", "requeried"} /\ setsData = <<>>)
            => listData = <<>>
    /\ (pc.list \in {"rendered", "requeried"} /\ setsData = <<>>)
            => ~listView.threw /\ listView.items = <<>>
    /\ (pc.calendar \in {"queried", "rendered"} /\ setsData = <<>>)
            => calendarData = <<>>
    /\ (pc.calendar = "rendered" /\ setsData = <<>>)
            => calendarView = <<>>

\* C11 happens: the three screens have run over an empty store.
C11_Witness ==
    /\ setsData = <<>>
    /\ pc.workout = "rendered"
    /\ pc.list = "rendered"
    /\ pc.calendar = "rendered"

----------------------------------------------------------------------------
(* Properties of the screens while the store changes *)

\* What each screen holds is computed from the rows the store holds now.
WorkoutShowsCurrentRows ==
    /\ data = WorkoutQuery(setsData, Today)
    /\ workoutGroups = TransformExerciseData(data)

ListViewShowsCurrentRows == listData = FormattedData(ListQuery(setsData))

CalendarShowsCurrentRows == calendarData = CalendarQuery(setsData)

\* C13: once rows of sets_data were deleted and inserted, every mounted
\* screen that shows aggregated sets eventually shows what its query and its
\* aggregation give for the rows the store holds.
C13_MountedScreensFollowTheStore ==
    (pc.seed = "done")
        ~> (/\ WorkoutShowsCurrentRows
            /\ ListViewShowsCurrentRows
            /\ CalendarShowsCurrentRows)

\* The workout screen alone does follow the store.
WorkoutFollowsTheStore == (pc.seed = "done") ~> WorkoutShowsCurrentRows

----------------------------------------------------------------------------
(* Properties of the workout screen's edit mode *)

\* C14: whenever the effects of the last event have run, edit mode is
\* active exactly when at least one exercise is selected.
C14_EditModeIffSelection ==
    (pc.workout # "idle" /\ ~effectPending)
        => (editMode.edit <=> editMode.selectedExercises # <<>>)

\* C14 happens: the last selected exercise was deselected and the effect
\* has left edit mode.
C14_Witness ==
    /\ event.name = "handleEditMode"
    /\ ~effectPending
    /\ ~editMode.edit
    /\ editMode.selectedExercises = <<>>

\* C15: handleDeleteExercises deletes from sets_data the rows of the
\* screen's date whose exercise_id is selected and no other row, keeps the
\* other rows as they are and in their order, and leaves edit mode off and
\* the selection empty.
C15_DeleteSelectedExercisesOfTheDate ==
    [][HandleDeleteExercises
        => /\ \A i \in 1..Len(setsData) :
                (\E j \in 1..Len(setsData') : setsData'[j] = setsData[i])
                    <=> ~(/\ setsData[i].date = Today
                          /\ setsData[i].exercise_id \in Selected(editMode))
           /\ \A j \in 1..Len(setsData') :
                \E i \in 1..Len(setsData) : setsData[i] = setsData'[j]
           /\ \A j, k \in 1..Len(setsData') :
                j < k => setsData'[j].id < setsData'[k].id
           /\ editMode' = [edit |-> FALSE, selectedExercises |-> <<>>]]_vars

\* C15 happens: a delete removed the selected exercise's rows of today and
\* kept a row of the same exercise of another day.
C15_Witness ==
    /\ event.name = "handleDeleteExercises"
    /\ pc.workout = "mounted"
    /\ \E i \in 1..Len(setsData) :
        /\ setsData[i].date # Today
        /\ setsData[i].exercise_id \in
                {event.arg[1][k] : k \in 1..Len(event.arg[1])}
    /\ \E i \in 1..Len(data) :
        \A j \in 1..Len(setsData) : setsData[j].id # data[i].setsData.id

\* What handleEditMode(id) is to make of the state.
Toggled(state, id) ==
    /\ editMode'.edit
    /\ ~state.edit => editMode'.selectedExercises = <<id>>
    /\ (state.edit /\ id \in Selected(state))
        => editMode'.selectedExercises
                = SelectSeq(state.selectedExercises, LAMBDA x : x # id)
    /\ (state.edit /\ id \notin Selected(state))
        => editMode'.selectedExercises
                = state.selectedExercises \o <<id>>

\* C16: in edit mode handleEditMode(id) removes id from the selection when
\* it is selected and appends it when it is not, the other ids staying in
\* their order; out of edit mode it enters edit mode with the selection
\* [id]; and the selection never holds an id twice.
C16_HandleEditModeToggles ==
    /\ [][\A id \in ExerciseIds :
            (LongPress(id) \/ (editMode.edit /\ Press(id)))
                => Toggled(editMode, id)]_vars
    /\ [](Cardinality(Selected(editMode)) = Len(editMode.selectedExercises))

\* C16 happens: a second exercise was added to the selection.
C16_Witness ==
    /\ event.name = "handleEditMode"
    /\ editMode.edit
    /\ Len(editMode.selectedExercises) = 2
    /\ event.arg = Some(editMode.selectedExercises[2])

\* addNewSet stored one more row, after the rows there were, under an id no
\* row had, and with empty notes.
OneRowInserted ==
    /\ Len(setsData') = Len(setsData) + 1
    /\ SubSeq(setsData', 1, Len(setsData)) = setsData
    /\ \A i \in 1..Len(setsData) :
            setsData[i].id # setsData'[Len(setsData')].id
    /\ setsData'[Len(setsData')].notes = Some("")

\* C17: with sets in the list addNewSet inserts exactly one row, equal in
\* exercise_id, date, weight, reps, distance and time to the last set of the
\* list and with empty notes, and appends it with its new id to the end of
\* the list, every earlier set and row staying as it was.
C17_AddNewSetCopiesTheLastSet ==
    [][(AddNewSet /\ sets # <<>>)
        => /\ OneRowInserted
           /\ LET new == setsData'[Len(setsData')]
                  last == sets[Len(sets)]
              IN  /\ new.exercise_id = last.exercise_id
                  /\ new.date = last.date
                  /\ new.weight = last.weight
                  /\ new.reps = last.reps
                  /\ new.distance = last.distance
                  /\ new.time = last.time
                  /\ sets' = sets \o <<new>>]_vars

\* C17 happens: a set was added to a list of two sets of different weights
\* and has the weight of the second.
C17_Witness ==
    /\ event.name = "addNewSet"
    /\ Len(sets) = 3
    /\ sets[1].weight # sets[2].weight
    /\ sets[3].weight = sets[2].weight
    /\ sets[2].notes # Some("")
    /\ sets[3].notes = Some("")
    /\ sets[3].id \notin {sets[1].id, sets[2].id}
    /\ setsData[Len(setsData)] = sets[3]

\* C18: with an empty list and earlier sets of the exercise addNewSet
\* inserts exactly one row with the weight, reps, distance and time of the
\* lowest-id set of the exercise's most recent date, dated today, with
\* empty notes and a new id, and changes no row there was.
C18_AddNewSetCopiesTheMostRecentFirstSet ==
    [][(/\ AddNewSet
        /\ sets = <<>>
        /\ \E i \in 1..Len(setsData) : setsData[i].exercise_id = exerciseId)
        => /\ OneRowInserted
           /\ LET new == setsData'[Len(setsData')]
              IN  /\ new.date = Today
                  /\ \E i \in 1..Len(setsData) :
                        /\ setsData[i].exercise_id = exerciseId
                        /\ \A j \in 1..Len(setsData) :
                              setsData[j].exercise_id = exerciseId
                                => /\ setsData[j].date <= setsData[i].date
                                   /\ setsData[j].date = setsData[i].date
                                        => setsData[i].id <= setsData[j].id
                        /\ new.weight = setsData[i].weight
                        /\ new.reps = setsData[i].reps
                        /\ new.distance = setsData[i].distance
                        /\ new.time = setsData[i].time]_vars

\* C18 happens: the exercise had sets on two earlier days, the list was
\* empty, and the added set has the weight of the later day's set.
C18_Witness ==
    /\ event.name = "addNewSet"
    /\ Len(sets) = 1
    /\ sets[1].date = Today
    /\ Len(setsData) = 3
    /\ setsData[3] = sets[1]
    /\ \A i \in 1..2 : setsData[i].exercise_id = exerciseId
    /\ setsData[2].date < setsData[1].date
    /\ setsData[1].date < Today
    /\ setsData[1].weight # setsData[2].weight
    /\ sets[1].weight = setsData[1].weight

\* C19: with the id k selected deleteSet deletes the row k and no other row
\* and takes the set k and no other set off the list, the rest staying in
\* their order, and the menu is hidden with no id selected; with no id
\* selected the rows and the list stay as they are.
C19_DeleteSetRemovesTheSelectedSet ==
    [][DeleteSet
        => IF menuVisible.currentSelectedId = Null
           THEN setsData' = setsData /\ sets' = sets
           ELSE LET k == menuVisible.currentSelectedId[1]
                    Without(rows) ==
                        {i \in 1..Len(rows) : rows[i].id # k}
                    KeptIn(rows, kept) ==
                        /\ Len(kept) = Cardinality(Without(rows))
                        /\ \A j \in 1..Len(kept) :
                              \E i \in Without(rows) :
                                /\ kept[j] = rows[i]
                                /\ Cardinality({h \in Without(rows) :
                                                    h < i}) = j - 1
                IN  /\ KeptIn(setsData, setsData')
                    /\ KeptIn(sets, sets')
                    /\ menuVisible' = MenuHidden]_vars

\* C19 happens: the set chosen in the menu was deleted from the rows and
\* the list, which both keep other sets.
C19_Witness ==
    /\ event.name = "deleteSet"
    /\ event.arg # Null
    /\ menuVisible = MenuHidden
    /\ Len(sets) = 1
    /\ Len(setsData) = 2
    /\ sets[1].id > event.arg[1]
    /\ \E i \in 1..2 : setsData[i].id < event.arg[1]
    /\ \A i \in 1..2 : setsData[i].id # event.arg[1]

\* C20: once the list view has rendered, its header is the TODAY placeholder
\* if and only if no workout of its data has today's date, whatever the
\* dates of the stored sets are (before, on or after today).
C20_PlaceholderIffNoWorkoutToday ==
    pc.list = "rendered"
        => (listView.placeholder
                <=> ~\E i \in 1..Len(listData) : listData[i].date = Today)

\* Without sets dated after today the header is the placeholder exactly
\* when no workout has today's date.
PlaceholderIffNoWorkoutTodayUpToToday ==
    (pc.list = "rendered"
        /\ \A i \in 1..Len(setsData) : setsData[i].date <= Today)
        => (listView.placeholder
                <=> ~\E i \in 1..Len(listData) : listData[i].date = Today)

\* The smallest id among the sets of an exercise group of the list view.
SmallestSetId(group) ==
    CHOOSE m \in {group.sets[k].id : k \in 1..Len(group.sets)} :
        \A k \in 1..Len(group.sets) : m <= group.sets[k].id

\* C21: when the list view's effect has folded the query's rows, the
\* exercise groups of every date stand in the order of logging: ascending by
\* the smallest id among the sets of each group.
C21_GroupsOrderedBySmallestSetId ==
    pc.list \in {"queried", "rendered"}
        => \A w \in 1..Len(listData) :
            \A i, j \in 1..Len(listData[w].data) :
                i < j => SmallestSetId(listData[w].data[i])
                            < SmallestSetId(listData[w].data[j])

\* C21 happens: on one date the exercise logged first has the later name,
\* and a set of it was logged after the other exercise's set.
C21_Witness ==
    /\ pc.list = "queried"
    /\ \E w \in 1..Len(listData) :
        /\ Len(listData[w].data) = 2
        /\ listData[w].data[1].exercise_name = Some(ExerciseName(2))
        /\ listData[w].data[2].exercise_name = Some(ExerciseName(1))
        /\ Len(listData[w].data[1].sets) = 2
        /\ listData[w].data[1].sets[2].id > listData[w].data[2].sets[1].id

\* C22: when the modal of a DistanceInput is dismissed without a save (the
\* cancel button, a press on the backdrop, the back request) the edited
\* distance and unit are the props value and suffix again, the modal is
\* closed, and saveDistance has not been called.
C22_DismissResetsAndDoesNotSave ==
    [][(CancelPress \/ BackdropPress \/ RequestClose)
        => /\ distanceInput'.state.distance = distanceInput.value
           /\ distanceInput'.state.distanceUnit = distanceInput.suffix
           /\ ~distanceInput'.modalState
           /\ distanceInput'.saved = distanceInput.saved
           /\ distanceInput'.value = distanceInput.value
           /\ distanceInput'.suffix = distanceInput.suffix]_vars

\* C22 happens: after a save of 7 Km the modal was opened again and was
\* dismissed by the back request.
C22_Witness ==
    /\ event = [name |-> "handleCancel", arg |-> Some("onRequestClose")]
    /\ distanceInput.saved = <<[distance |-> "7", unit |-> "Km"]>>
    /\ distanceInput.state = [distance |-> "7", distanceUnit |-> "Km"]
    /\ ~distanceInput.modalState

\* Every call made has come to its end, and one was made.
SeedCallsEnded ==
    /\ \A call \in SeedCalls : seedCalls[call].pc \in {"idle", "done", "failed"}
    /\ \E call \in SeedCalls : seedCalls[call].pc # "idle"

SeedsStoredOnceAfterTheCalls ==
    SeedCallsEnded
        => categories = SeededCategories /\ exercises = SeededExercises

\* The exercises are inserted when the categories are there.
CategoriesBeforeExercises == exercises # <<>> => categories # <<>>

\* C24: every set addNewSet inserts has the shape of the type of its
\* exercise: its measurements that are not null are the fields of the type,
\* for each of the ten types, and also when the exercise has no earlier set
\* and a blank set is made.
C24_InsertedSetHasTheShapeOfItsType ==
    [][(AddNewSet /\ Len(setsData') = Len(setsData) + 1)
        => MeasuredFields(setsData'[Len(setsData')])
                = TypeFields(exercises[exerciseId].type)]_vars

\* A set copied from a set of the list or from an earlier set has the
\* measurements of the set it copies.
CopiedSetKeepsTheShape ==
    [][(/\ AddNewSet
        /\ Len(setsData') = Len(setsData) + 1
        /\ \E i \in 1..Len(setsData) : setsData[i].exercise_id = exerciseId)
        => \E i \in 1..Len(setsData) :
            MeasuredFields(setsData'[Len(setsData')])
                = MeasuredFields(setsData[i])]_vars

====
